---------------------------- MODULE Spec2Model ----------------------------
(***************************************************************************)
(* Model of pfs::acpi, Linux backend (src/src/acpi_linux.cpp).             *)
(*                                                                         *)
(* Text is modelled as a sequence of one-character strings, so that        *)
(* read_all, strncasecmp and sscanf("%d") are computed the way the code    *)
(* computes them.  A directory of the device tree is a record; the process *)
(* working directory is a path (a sequence of names).                      *)
(***************************************************************************)
EXTENDS Integers, Sequences, FiniteSets, TLC

(***************************************************************************)
(* Bounds of the model.                                                    *)
(***************************************************************************)
\* acquire() calls after the constructor's own
MaxPasses == 2
\* raw attribute values of the battery specification are k * 1000,
\* k in -MaxRawK .. MaxRawK
MaxRawK == 2
\* attribute files of the reader specification hold up to
\* MaxChunks * BUF_SZ + 2 bytes
MaxChunks == 2

(***************************************************************************)
(* Program constants.                                                      *)
(***************************************************************************)
\* static size_t BUF_SZ = 64
BUF_SZ == 64
\* MIN_CAPACITY = 0.01, in hundredths
MIN_CAPACITY == 1
\* MIN_PRESENT_RATE = 0.01, in hundredths
MIN_PRESENT_RATE == 1
\* ACPI_PATH_SYS = "/sys/class/"
ACPI_PATH_SYS == "/sys/class/"

(***************************************************************************)
(* C arithmetic and character helpers.                                     *)
(***************************************************************************)
Abs(x) == IF x < 0 THEN -x ELSE x

\* C integer division: truncation toward zero (b # 0).  The values of the
\* model stay far inside the range of int, so no operation wraps.
TruncDiv(a, b) ==
    IF (a >= 0) = (b > 0) THEN Abs(a) \div Abs(b) ELSE -(Abs(a) \div Abs(b))

NUL == "NUL"

UpperCase == <<"A","B","C","D","E","F","G","H","I","J","K","L","M",
               "N","O","P","Q","R","S","T","U","V","W","X","Y","Z">>
LowerCase == <<"a","b","c","d","e","f","g","h","i","j","k","l","m",
               "n","o","p","q","r","s","t","u","v","w","x","y","z">>

tolower(c) ==
    IF \E i \in 1..26 : UpperCase[i] = c
    THEN LowerCase[CHOOSE i \in 1..26 : UpperCase[i] = c]
    ELSE c

\* the byte at 0-based offset i of a C string (NUL at and past the end)
CharAt(s, i) == IF i + 1 <= Len(s) THEN s[i + 1] ELSE NUL

\* strncasecmp(s1, s2, n) == 0
RECURSIVE CaseEqFrom(_, _, _, _)
CaseEqFrom(s1, s2, i, n) ==
    IF i >= n THEN TRUE
    ELSE IF tolower(CharAt(s1, i)) # tolower(CharAt(s2, i)) THEN FALSE
    ELSE IF CharAt(s1, i) = NUL THEN TRUE
    ELSE CaseEqFrom(s1, s2, i + 1, n)

strncasecmp0(s1, s2, n) == CaseEqFrom(s1, s2, 0, n)

Digits == <<"0","1","2","3","4","5","6","7","8","9">>
IsDigit(c) == \E i \in 1..10 : Digits[i] = c
DigitVal(c) == (CHOOSE i \in 1..10 : Digits[i] = c) - 1
IsSpace(c) == c \in {" ", "\n", "\t"}

RECURSIVE SkipSpace(_, _)
SkipSpace(s, i) == IF IsSpace(CharAt(s, i)) THEN SkipSpace(s, i + 1) ELSE i

RECURSIVE ScanDigits(_, _, _)
ScanDigits(s, i, acc) ==
    IF IsDigit(CharAt(s, i))
    THEN ScanDigits(s, i + 1, acc * 10 + DigitVal(CharAt(s, i)))
    ELSE acc

\* int n = -1; sscanf(s, "%d", &n); return n;
unit_value(s) ==
    LET i == SkipSpace(s, 0)
        signed == CharAt(s, i) \in {"-", "+"}
        j == IF signed THEN i + 1 ELSE i
    IN  IF ~IsDigit(CharAt(s, j)) THEN -1
        ELSE IF CharAt(s, i) = "-" THEN -ScanDigits(s, j, 0)
        ELSE ScanDigits(s, j, 0)

(***************************************************************************)
(* Attribute reader.                                                       *)
(***************************************************************************)
\* the result of a failed fopen
NoFile == [ok |-> FALSE, content |-> <<>>]
\* the result of fopen on a file with the given content
OpenFile(content) == [ok |-> TRUE, content |-> content]

\* the chunks fread hands out: BUF_SZ bytes at a time, then the rest
RECURSIVE ReadChunks(_, _, _)
ReadChunks(content, remove_trailing_nl, result) ==
    IF Len(content) = 0 THEN result
    ELSE LET n0 == IF Len(content) < BUF_SZ THEN Len(content) ELSE BUF_SZ
             n  == IF remove_trailing_nl /\ n0 > 0 /\ n0 < BUF_SZ
                      /\ content[n0] = "\n"
                   THEN n0 - 1 ELSE n0
         IN  ReadChunks(SubSeq(content, n0 + 1, Len(content)),
                        remove_trailing_nl,
                        result \o SubSeq(content, 1, n))

\* read_all(path, remove_trailing_nl) on the outcome of fopen(path)
read_all(file, remove_trailing_nl) ==
    IF ~file.ok THEN <<>>
    ELSE ReadChunks(file.content, remove_trailing_nl, <<>>)

(***************************************************************************)
(* The device tree and the process working directory.                      *)
(*                                                                         *)
(* tree = [root |-> BOOLEAN,            can /sys/class/ be entered         *)
(*         cat  |-> [Categories -> [state, entries]]]                      *)
(* state is "ok", "missing" (chdir fails) or "unreadable" (chdir succeeds, *)
(* opendir fails); entries is the directory listing without "." and "..",  *)
(* each entry [name, dir, files]: dir tells whether chdir into it succeeds *)
(* and files maps the attribute files it holds to their content.           *)
(* A path is <<>> (a directory outside the tree), <<ACPI_PATH_SYS>>,       *)
(* <<ACPI_PATH_SYS, category>> or <<ACPI_PATH_SYS, category, entry>>.      *)
(***************************************************************************)
Categories == {"power_supply", "thermal"}
Elsewhere == <<>>

EntryNamed(tree, category, name) ==
    LET es == tree.cat[category].entries
    IN  es[CHOOSE i \in 1..Len(es) : es[i].name = name]

HasEntry(tree, category, name) ==
    \E i \in 1..Len(tree.cat[category].entries) :
        tree.cat[category].entries[i].name = name

\* chdir(path) from cwd: the new working directory, or cwd itself with
\* ok = FALSE when the call returns -1
chdir(tree, cwd, path) ==
    IF path = ACPI_PATH_SYS
    THEN IF tree.root THEN [ok |-> TRUE, cwd |-> <<ACPI_PATH_SYS>>]
         ELSE [ok |-> FALSE, cwd |-> cwd]
    ELSE IF cwd = <<ACPI_PATH_SYS>> /\ path \in Categories
            /\ tree.cat[path].state # "missing"
    THEN [ok |-> TRUE, cwd |-> <<ACPI_PATH_SYS, path>>]
    ELSE IF Len(cwd) = 2 /\ HasEntry(tree, cwd[2], path)
            /\ EntryNamed(tree, cwd[2], path).dir
    THEN [ok |-> TRUE, cwd |-> Append(cwd, path)]
    ELSE [ok |-> FALSE, cwd |-> cwd]

\* fopen(path, "r") of a relative file name from cwd
fopen(tree, cwd, path) ==
    IF Len(cwd) = 3 /\ HasEntry(tree, cwd[2], cwd[3])
       /\ path \in DOMAIN EntryNamed(tree, cwd[2], cwd[3]).files
    THEN OpenFile(EntryNamed(tree, cwd[2], cwd[3]).files[path])
    ELSE NoFile

\* read_all(path, remove_trailing_nl) as called from cwd
ReadAttr(tree, cwd, path, remove_trailing_nl) ==
    read_all(fopen(tree, cwd, path), remove_trailing_nl)

(***************************************************************************)
(* Battery acquisition (the battery branch of the power_supply visitor).   *)
(***************************************************************************)
\* status text -> charge_state_enum
ChargeState(charge_state) ==
    IF strncasecmp0(charge_state, <<"d","i","s","c","h">>, 5) THEN "discharge"
    ELSE IF strncasecmp0(charge_state, <<"f","u","l","l">>, 4) THEN "charged"
    ELSE IF strncasecmp0(charge_state, <<"c","h","a","r","g","i">>, 6) THEN "charge"
    ELSE "unknown"

\* x = -1; if (!s.empty()) x = unit_value(s) / 1000;
MilliValue(s) == IF Len(s) = 0 THEN -1 ELSE TruncDiv(unit_value(s), 1000)

\* current_now, or power_now when current_now reads empty
PresentRateText(current_now, power_now) ==
    IF Len(current_now) = 0 THEN power_now ELSE current_now

\* if (!bat.voltage) bat.voltage = -1;
Voltage(voltage_now) ==
    IF MilliValue(voltage_now) = 0 THEN -1 ELSE MilliValue(voltage_now)

\* LastCapacity with the energy value divided by the voltage unscaled
LastCapacity_unscaled(last_capacity, last_capacity_unit, voltage) ==
    IF last_capacity_unit # -1 /\ last_capacity = -1
    THEN IF voltage # -1
         THEN TruncDiv(last_capacity_unit, voltage)
         ELSE last_capacity_unit
    ELSE last_capacity

LastCapacity(last_capacity, last_capacity_unit, voltage) ==
    IF last_capacity_unit # -1 /\ last_capacity = -1
    THEN IF voltage # -1
         THEN TruncDiv(last_capacity_unit * 1000, voltage)
         ELSE last_capacity_unit
    ELSE last_capacity

RemainingCapacity(remaining_capacity, remaining_energy, voltage) ==
    IF remaining_energy # -1 /\ remaining_capacity = -1
    THEN IF voltage # -1
         THEN TruncDiv(remaining_energy * 1000, voltage)
         ELSE remaining_energy
    ELSE remaining_capacity

PresentRate(present_rate, remaining_capacity, remaining_energy, voltage) ==
    IF remaining_energy # -1 /\ remaining_capacity = -1 /\ voltage # -1
    THEN TruncDiv(present_rate * 1000, voltage)
    ELSE present_rate

Percentage(remaining_capacity, last_capacity) ==
    LET percentage == IF last_capacity * 100 < MIN_CAPACITY THEN 0
                      ELSE TruncDiv(remaining_capacity * 100, last_capacity)
    IN  IF percentage > 100 THEN 100 ELSE percentage

\* Seconds with the discharge formula applied to every state but charging
Seconds_else(charge_state, present_rate, last_capacity, remaining_capacity) ==
    IF present_rate = -1 THEN -1
    ELSE IF charge_state = "charge"
    THEN IF present_rate * 100 > MIN_PRESENT_RATE
         THEN TruncDiv(3600 * (last_capacity - remaining_capacity), present_rate)
         ELSE -1
    ELSE IF present_rate * 100 > MIN_PRESENT_RATE
         THEN TruncDiv(3600 * remaining_capacity, present_rate)
         ELSE -1

Seconds(charge_state, present_rate, last_capacity, remaining_capacity) ==
    IF present_rate = -1 THEN -1
    ELSE IF charge_state = "charge"
    THEN IF present_rate * 100 > MIN_PRESENT_RATE
         THEN TruncDiv(3600 * (last_capacity - remaining_capacity), present_rate)
         ELSE -1
    ELSE IF charge_state = "discharge"
    THEN IF present_rate * 100 > MIN_PRESENT_RATE
         THEN TruncDiv(3600 * remaining_capacity, present_rate)
         ELSE -1
    ELSE -1

\* the battery_extended record the visitor fills for direntry, reading its
\* attribute files relative to cwd
BatteryRecord(tree, cwd, direntry) ==
    LET charge_state == ChargeState(ReadAttr(tree, cwd, "status", TRUE))
        remaining_capacity == MilliValue(ReadAttr(tree, cwd, "charge_now", TRUE))
        remaining_energy == MilliValue(ReadAttr(tree, cwd, "energy_now", TRUE))
        present_rate ==
            MilliValue(PresentRateText(ReadAttr(tree, cwd, "current_now", TRUE),
                                       ReadAttr(tree, cwd, "power_now", TRUE)))
        last_capacity == MilliValue(ReadAttr(tree, cwd, "charge_full", TRUE))
        last_capacity_unit == MilliValue(ReadAttr(tree, cwd, "energy_full", TRUE))
        voltage == Voltage(ReadAttr(tree, cwd, "voltage_now", TRUE))
        last_capacity2 == LastCapacity(last_capacity, last_capacity_unit, voltage)
        remaining_capacity2 ==
            RemainingCapacity(remaining_capacity, remaining_energy, voltage)
        present_rate2 ==
            PresentRate(present_rate, remaining_capacity, remaining_energy, voltage)
    IN  [name |-> direntry,
         manufacturer |-> ReadAttr(tree, cwd, "manufacturer", TRUE),
         model_name |-> ReadAttr(tree, cwd, "model_name", TRUE),
         technology |-> ReadAttr(tree, cwd, "technology", TRUE),
         charge_state |-> charge_state,
         percentage |-> Percentage(remaining_capacity2, last_capacity2),
         seconds |-> Seconds(charge_state, present_rate2, last_capacity2,
                             remaining_capacity2),
         remaining_capacity |-> remaining_capacity2,
         remaining_energy |-> remaining_energy,
         present_rate |-> present_rate2,
         last_capacity |-> last_capacity2,
         last_capacity_unit |-> last_capacity_unit,
         voltage |-> voltage]

\* BatteryDivisions with the percentage computed for every capacity that is
\* not negative
BatteryDivisions_not_negative(tree, cwd) ==
    LET charge_state == ChargeState(ReadAttr(tree, cwd, "status", TRUE))
        remaining_capacity == MilliValue(ReadAttr(tree, cwd, "charge_now", TRUE))
        remaining_energy == MilliValue(ReadAttr(tree, cwd, "energy_now", TRUE))
        present_rate ==
            MilliValue(PresentRateText(ReadAttr(tree, cwd, "current_now", TRUE),
                                       ReadAttr(tree, cwd, "power_now", TRUE)))
        last_capacity == MilliValue(ReadAttr(tree, cwd, "charge_full", TRUE))
        last_capacity_unit == MilliValue(ReadAttr(tree, cwd, "energy_full", TRUE))
        voltage == Voltage(ReadAttr(tree, cwd, "voltage_now", TRUE))
        last_capacity2 == LastCapacity(last_capacity, last_capacity_unit, voltage)
        present_rate2 ==
            PresentRate(present_rate, remaining_capacity, remaining_energy, voltage)
    IN  (IF last_capacity_unit # -1 /\ last_capacity = -1 /\ voltage # -1
         THEN {[field |-> "last_capacity", divisor |-> voltage]} ELSE {})
        \cup
        (IF remaining_energy # -1 /\ remaining_capacity = -1 /\ voltage # -1
         THEN {[field |-> "remaining_capacity", divisor |-> voltage],
               [field |-> "present_rate", divisor |-> voltage]}
         ELSE {})
        \cup
        (IF last_capacity2 < 0 THEN {}
         ELSE {[field |-> "percentage", divisor |-> last_capacity2]})
        \cup
        (IF present_rate2 # -1 /\ charge_state \in {"charge", "discharge"}
            /\ present_rate2 * 100 > MIN_PRESENT_RATE
         THEN {[field |-> "seconds", divisor |-> present_rate2]} ELSE {})

\* the divisions the battery branch executes for the entry it stands in
\* (cwd), each with the field it computes and its divisor
BatteryDivisions(tree, cwd) ==
    LET charge_state == ChargeState(ReadAttr(tree, cwd, "status", TRUE))
        remaining_capacity == MilliValue(ReadAttr(tree, cwd, "charge_now", TRUE))
        remaining_energy == MilliValue(ReadAttr(tree, cwd, "energy_now", TRUE))
        present_rate ==
            MilliValue(PresentRateText(ReadAttr(tree, cwd, "current_now", TRUE),
                                       ReadAttr(tree, cwd, "power_now", TRUE)))
        last_capacity == MilliValue(ReadAttr(tree, cwd, "charge_full", TRUE))
        last_capacity_unit == MilliValue(ReadAttr(tree, cwd, "energy_full", TRUE))
        voltage == Voltage(ReadAttr(tree, cwd, "voltage_now", TRUE))
        last_capacity2 == LastCapacity(last_capacity, last_capacity_unit, voltage)
        present_rate2 ==
            PresentRate(present_rate, remaining_capacity, remaining_energy, voltage)
    IN  (IF last_capacity_unit # -1 /\ last_capacity = -1 /\ voltage # -1
         THEN {[field |-> "last_capacity", divisor |-> voltage]} ELSE {})
        \cup
        (IF remaining_energy # -1 /\ remaining_capacity = -1 /\ voltage # -1
         THEN {[field |-> "remaining_capacity", divisor |-> voltage],
               [field |-> "present_rate", divisor |-> voltage]}
         ELSE {})
        \cup
        (IF last_capacity2 * 100 < MIN_CAPACITY THEN {}
         ELSE {[field |-> "percentage", divisor |-> last_capacity2]})
        \cup
        (IF present_rate2 # -1 /\ charge_state \in {"charge", "discharge"}
            /\ present_rate2 * 100 > MIN_PRESENT_RATE
         THEN {[field |-> "seconds", divisor |-> present_rate2]} ELSE {})

\* the ac_adapter record the visitor fills for direntry
AcAdapterRecord(tree, cwd, direntry) ==
    LET online == ReadAttr(tree, cwd, "online", TRUE)
    IN  [name |-> direntry,
         state |-> IF Len(online) = 0 THEN "unsupported"
                   ELSE IF unit_value(online) = 0 THEN "offline"
                   ELSE "online"]

\* the thermal_zone record the visitor fills for direntry; the temperature
\* is kept in thousandths of a degree (unit_value(temperature) / 1000.0)
ThermalZoneRecord(tree, cwd, direntry) ==
    LET temperature == ReadAttr(tree, cwd, "temp", FALSE)
    IN  [name |-> direntry,
         temperature |-> IF Len(temperature) = 0 THEN -1000
                         ELSE unit_value(temperature)]

\* the fan record the visitor fills for direntry
FanRecord(tree, cwd, direntry) ==
    LET cur_state == ReadAttr(tree, cwd, "cur_state", FALSE)
        max_state == ReadAttr(tree, cwd, "max_state", FALSE)
    IN  [name |-> direntry,
         cur_state |-> IF Len(cur_state) = 0 THEN -1 ELSE unit_value(cur_state),
         max_state |-> IF Len(max_state) = 0 THEN -1 ELSE unit_value(max_state)]

(***************************************************************************)
(* The walker and its two visitors, as one pass each.                      *)
(*                                                                         *)
(* st = [cwd, batteries, ac_adapters, thermal_zones, fans] is what a pass  *)
(* reads and writes: the process working directory and the four vectors of *)
(* details::acpi.  A mask (int devices) is the set of kinds whose flag     *)
(* is set.                                                                 *)
(***************************************************************************)
Kinds == {"battery", "ac_adapter", "thermal_zone", "fan"}
dev_all == Kinds
Masks == SUBSET Kinds

\* what the power_supply visitor takes the entry it stands in (cwd) for
power_supply_kind(tree, cwd) ==
    LET type == ReadAttr(tree, cwd, "type", FALSE)
        is_battery == strncasecmp0(type, <<"b","a","t","t","e","r","y">>, 7)
        is_ac_adapter == ~is_battery
                         /\ strncasecmp0(type, <<"m","a","i","n","s">>, 5)
    IN  IF is_battery THEN "battery"
        ELSE IF is_ac_adapter THEN "ac_adapter"
        ELSE "none"

\* what the thermal visitor takes the entry it stands in (cwd) for
thermal_kind(tree, cwd) ==
    LET temperature == ReadAttr(tree, cwd, "temp", FALSE)
        is_fan == Len(temperature) = 0
    IN  IF is_fan THEN "fan" ELSE "thermal_zone"

\* power_supply_visitor recording an AC adapter whatever the mask
power_supply_visitor_unmasked(tree, st, direntry, devices) ==
    LET c == chdir(tree, st.cwd, direntry)
        is_battery == power_supply_kind(tree, c.cwd) = "battery"
        is_ac_adapter == power_supply_kind(tree, c.cwd) = "ac_adapter"
    IN  IF ~c.ok THEN st
        ELSE IF is_battery /\ "battery" \in devices
        THEN [st EXCEPT !.cwd = c.cwd,
                        !.batteries = Append(@, BatteryRecord(tree, c.cwd, direntry))]
        ELSE IF is_ac_adapter
        THEN [st EXCEPT !.cwd = c.cwd,
                        !.ac_adapters = Append(@, AcAdapterRecord(tree, c.cwd, direntry))]
        ELSE [st EXCEPT !.cwd = c.cwd]

\* the lambda passed by acquire_power_supply
power_supply_visitor(tree, st, direntry, devices) ==
    LET c == chdir(tree, st.cwd, direntry)
        is_battery == power_supply_kind(tree, c.cwd) = "battery"
        is_ac_adapter == power_supply_kind(tree, c.cwd) = "ac_adapter"
    IN  IF ~c.ok THEN st
        ELSE IF is_battery /\ "battery" \in devices
        THEN [st EXCEPT !.cwd = c.cwd,
                        !.batteries = Append(@, BatteryRecord(tree, c.cwd, direntry))]
        ELSE IF is_ac_adapter /\ "ac_adapter" \in devices
        THEN [st EXCEPT !.cwd = c.cwd,
                        !.ac_adapters = Append(@, AcAdapterRecord(tree, c.cwd, direntry))]
        ELSE [st EXCEPT !.cwd = c.cwd]

\* thermal_visitor recording as a fan whatever was not recorded as a zone
thermal_visitor_fallback(tree, st, direntry, devices) ==
    LET c == chdir(tree, st.cwd, direntry)
        is_thermal_zone == thermal_kind(tree, c.cwd) = "thermal_zone"
    IN  IF ~c.ok THEN st
        ELSE IF is_thermal_zone /\ "thermal_zone" \in devices
        THEN [st EXCEPT !.cwd = c.cwd,
                        !.thermal_zones = Append(@, ThermalZoneRecord(tree, c.cwd, direntry))]
        ELSE IF "fan" \in devices
        THEN [st EXCEPT !.cwd = c.cwd,
                        !.fans = Append(@, FanRecord(tree, c.cwd, direntry))]
        ELSE [st EXCEPT !.cwd = c.cwd]

\* the lambda passed by acquire_thermal
thermal_visitor(tree, st, direntry, devices) ==
    LET c == chdir(tree, st.cwd, direntry)
        is_fan == thermal_kind(tree, c.cwd) = "fan"
        is_thermal_zone == thermal_kind(tree, c.cwd) = "thermal_zone"
    IN  IF ~c.ok THEN st
        ELSE IF is_thermal_zone /\ "thermal_zone" \in devices
        THEN [st EXCEPT !.cwd = c.cwd,
                        !.thermal_zones = Append(@, ThermalZoneRecord(tree, c.cwd, direntry))]
        ELSE IF is_fan /\ "fan" \in devices
        THEN [st EXCEPT !.cwd = c.cwd,
                        !.fans = Append(@, FanRecord(tree, c.cwd, direntry))]
        ELSE [st EXCEPT !.cwd = c.cwd]

visitor(tree, st, category, direntry, devices) ==
    IF category = "power_supply"
    THEN power_supply_visitor(tree, st, direntry, devices)
    ELSE thermal_visitor(tree, st, direntry, devices)

\* misnamed in the source: true of the entries "." and ".."
is_dir_entry(d_name) == d_name = "." \/ d_name = ".."

\* the readdir loop over the stream `listing`
RECURSIVE ReaddirLoop(_, _, _, _, _)
ReaddirLoop(tree, st, direntry, devices, listing) ==
    IF Len(listing) = 0 THEN st
    ELSE IF is_dir_entry(Head(listing))
    THEN ReaddirLoop(tree, st, direntry, devices, Tail(listing))
    ELSE LET c1 == chdir(tree, st.cwd, ACPI_PATH_SYS)
             c2 == chdir(tree, c1.cwd, direntry)
         IN  ReaddirLoop(tree,
                         visitor(tree, [st EXCEPT !.cwd = c2.cwd], direntry,
                                 Head(listing), devices),
                         direntry, devices, Tail(listing))

\* opendir(".") succeeds: the working directory can be listed
opendir(tree, cwd) ==
    Len(cwd) = 2 => tree.cat[cwd[2]].state = "ok"

\* acquire_devices(direntry, devices, visitor); listing is the order in
\* which readdir hands out the names of the directory
acquire_devices(tree, st, direntry, devices, listing) ==
    LET c1 == chdir(tree, st.cwd, ACPI_PATH_SYS)
        c2 == chdir(tree, c1.cwd, direntry)
    IN  IF ~c1.ok THEN st
        ELSE IF ~c2.ok THEN [st EXCEPT !.cwd = c1.cwd]
        ELSE IF ~opendir(tree, c2.cwd) THEN [st EXCEPT !.cwd = c2.cwd]
        ELSE ReaddirLoop(tree, [st EXCEPT !.cwd = c2.cwd], direntry, devices,
                         listing)

\* acpi::acquire(devices); order[c] is the readdir order of category c
acquire(tree, st, devices, order) ==
    LET st1 == IF "battery" \in devices \/ "ac_adapter" \in devices
               THEN acquire_devices(tree, st, "power_supply", devices,
                                    order["power_supply"])
               ELSE st
    IN  IF "thermal_zone" \in devices \/ "fan" \in devices
        THEN acquire_devices(tree, st1, "thermal", devices, order["thermal"])
        ELSE st1

(***************************************************************************)
(* Indexed access.                                                         *)
(***************************************************************************)
\* battery{}
DefaultBattery ==
    [name |-> <<>>, manufacturer |-> <<>>, model_name |-> <<>>,
     technology |-> <<>>, charge_state |-> "unknown", percentage |-> 0,
     seconds |-> 0]
\* ac_adapter{}
DefaultAcAdapter == [name |-> <<>>, state |-> "unsupported"]
\* thermal_zone{}
DefaultThermalZone == [name |-> <<>>, temperature |-> 0]
\* fan{}
DefaultFan == [name |-> <<>>, cur_state |-> 0, max_state |-> 0]

\* the battery base of a battery_extended (return by value slices it)
AsBattery(b) ==
    [name |-> b.name, manufacturer |-> b.manufacturer,
     model_name |-> b.model_name, technology |-> b.technology,
     charge_state |-> b.charge_state, percentage |-> b.percentage,
     seconds |-> b.seconds]

\* battery_at with the lower bound off by one
battery_at_positive(batteries, index) ==
    IF index > 0 /\ index < Len(batteries)
    THEN AsBattery(batteries[index + 1]) ELSE DefaultBattery

battery_at(batteries, index) ==
    IF index >= 0 /\ index < Len(batteries)
    THEN AsBattery(batteries[index + 1]) ELSE DefaultBattery

ac_adapter_at(ac_adapters, index) ==
    IF index >= 0 /\ index < Len(ac_adapters)
    THEN ac_adapters[index + 1] ELSE DefaultAcAdapter

thermal_zone_at(thermal_zones, index) ==
    IF index >= 0 /\ index < Len(thermal_zones)
    THEN thermal_zones[index + 1] ELSE DefaultThermalZone

fan_at(fans, index) ==
    IF index >= 0 /\ index < Len(fans)
    THEN fans[index + 1] ELSE DefaultFan

(***************************************************************************)
(* Device trees the model runs against.                                    *)
(***************************************************************************)
\* the decimal text of an integer, as the kernel prints an attribute
RECURSIVE DecimalDigits(_)
DecimalDigits(n) ==
    IF n < 10 THEN <<Digits[n + 1]>>
    ELSE Append(DecimalDigits(n \div 10), Digits[(n % 10) + 1])

\* an attribute file holding one number and a newline
NumberFile(n) ==
    (IF n < 0 THEN <<"-">> \o DecimalDigits(-n) ELSE DecimalDigits(n))
        \o <<"\n">>

TypeBattery == <<"B","a","t","t","e","r","y","\n">>
TypeMains == <<"M","a","i","n","s","\n">>
StatusDischarging == <<"D","i","s","c","h","a","r","g","i","n","g","\n">>
StatusCharging == <<"C","h","a","r","g","i","n","g","\n">>
StatusFull == <<"F","u","l","l","\n">>

\* names of the entries of a category directory, by position
EntryNames == <<"dev0", "dev1", "dev2", "dev3">>

\* power_supply/<name>/ of the scenario battery
ScenarioBatteryFiles ==
    [type |-> TypeBattery, status |-> StatusDischarging,
     charge_now |-> NumberFile(3000000), charge_full |-> NumberFile(6000000),
     current_now |-> NumberFile(1000000), voltage_now |-> NumberFile(12000000)]

\* power_supply/<name>/ of an AC adapter that is on line
MainsFiles == [type |-> TypeMains, online |-> NumberFile(1)]

\* thermal/<name>/ of a thermal zone and of a cooling device
ThermalZoneFiles == [temp |-> NumberFile(45000)]
CoolingDeviceFiles == [cur_state |-> NumberFile(2), max_state |-> NumberFile(5)]

\* what an entry of a category directory can be; "stale" is an entry that
\* cannot be entered
DeviceShapes(category) ==
    IF category = "power_supply" THEN {"battery", "mains", "stale"}
    ELSE {"thermal_zone", "cooling_device"}

ShapeFiles(shape) ==
    CASE shape = "battery" -> ScenarioBatteryFiles
      [] shape = "mains" -> MainsFiles
      [] shape = "thermal_zone" -> ThermalZoneFiles
      [] shape = "cooling_device" -> CoolingDeviceFiles
      [] OTHER -> [type |-> <<>>]

MakeEntry(i, shape) ==
    [name |-> EntryNames[i], dir |-> shape # "stale", files |-> ShapeFiles(shape)]

\* a category directory in the given state holding the given shapes
MakeDir(state, shapes) ==
    [state |-> state,
     entries |-> [i \in 1..Len(shapes) |-> MakeEntry(i, shapes[i])]]

MissingDir == MakeDir("missing", <<>>)

MakeTree(root, power_supply, thermal) ==
    [root |-> root,
     cat |-> [c \in Categories |->
                IF c = "power_supply" THEN power_supply ELSE thermal]]

\* the device trees of the acquisition specification
Trees ==
    {MakeTree(r, MakeDir("ok", <<"battery", "mains">>),
                 MakeDir("ok", <<"thermal_zone", "cooling_device">>)) :
        r \in BOOLEAN}
    \cup
    {MakeTree(TRUE, MakeDir("ok", <<"battery", "battery">>),
                    MakeDir("ok", <<"cooling_device">>)),
     MakeTree(TRUE, MakeDir("ok", <<"stale", "mains">>), MissingDir),
     MakeTree(TRUE, MissingDir, MakeDir("ok", <<"thermal_zone">>)),
     MakeTree(TRUE, MakeDir("unreadable", <<"battery", "mains">>),
                    MakeDir("ok", <<"cooling_device", "thermal_zone">>)),
     MakeTree(TRUE, MakeDir("ok", <<"mains", "battery">>),
                    MakeDir("unreadable", <<"thermal_zone", "cooling_device">>)),
     MakeTree(TRUE, MakeDir("ok", <<>>), MakeDir("ok", <<>>))}

(***************************************************************************)
(* Device trees of the battery specification: one power_supply entry of    *)
(* type Battery whose numeric attributes are each absent or present.  A    *)
(* choice is <<>> for an absent file and <<v>> for a file holding v.       *)
(***************************************************************************)
NumericAttributes ==
    {"charge_now", "energy_now", "current_now", "power_now", "charge_full",
     "energy_full", "voltage_now"}

Absent == <<>>
Holding(values) == {Absent} \cup {<<v>> : v \in values}

VoltageChoices == Holding({k * 1000 : k \in -MaxRawK .. MaxRawK})
ChargeChoices == Holding({k * 1000 : k \in -1 .. MaxRawK})
EnergyChoices == Holding({-1000, MaxRawK * 1000})
PowerChoices == Holding({1000})
StatusChoices == {Absent, <<StatusDischarging>>, <<StatusCharging>>, <<StatusFull>>}

\* the attribute directory for a choice of raw values and a status
BatteryFiles(raw, status) ==
    LET present == {a \in NumericAttributes : raw[a] # Absent}
        names == {"type"} \cup present
                    \cup (IF status = Absent THEN {} ELSE {"status"})
    IN  [a \in names |->
            IF a = "type" THEN TypeBattery
            ELSE IF a = "status" THEN status[1]
            ELSE NumberFile(raw[a][1])]

\* a tree holding the one battery; raw keeps the values the files were
\* written from
BatteryTree(raw, status) ==
    MakeTree(TRUE,
             [state |-> "ok",
              entries |-> <<[name |-> EntryNames[1], dir |-> TRUE,
                             files |-> BatteryFiles(raw, status),
                             raw |-> raw]>>],
             MissingDir)

RawChoice(cn, en, cu, pn, cf, ef, vn) ==
    [charge_now |-> cn, energy_now |-> en, current_now |-> cu,
     power_now |-> pn, charge_full |-> cf, energy_full |-> ef,
     voltage_now |-> vn]

\* the scenario of the specification's section 8
ScenarioRaw ==
    RawChoice(<<3000000>>, Absent, <<1000000>>, Absent, <<6000000>>, Absent,
              <<12000000>>)

\* a battery that reports energy and power instead of charge and current
EnergyRaw ==
    RawChoice(Absent, <<36000000>>, Absent, <<12000000>>, Absent, <<72000000>>,
              <<12000000>>)

BatteryTrees ==
    {BatteryTree(RawChoice(cn, en, cu, pn, cf, ef, vn), st) :
        cn \in ChargeChoices, en \in EnergyChoices, cu \in ChargeChoices,
        pn \in PowerChoices, cf \in ChargeChoices, ef \in EnergyChoices,
        vn \in VoltageChoices, st \in StatusChoices}
    \cup {BatteryTree(ScenarioRaw, <<StatusDischarging>>),
          BatteryTree(EnergyRaw, <<StatusCharging>>)}

\* the permutations of a set of names, as sequences
Arrangements(names) ==
    LET n == Cardinality(names)
    IN  {q \in [1..n -> names] : \A i, j \in 1..n : q[i] = q[j] => i = j}

\* the names a directory holds besides "." and ".."
NamesAt(tree, dir) ==
    IF Len(dir) = 1
    THEN {c \in Categories : tree.cat[c].state # "missing"}
    ELSE IF Len(dir) = 2
    THEN {tree.cat[dir[2]].entries[i].name :
             i \in 1..Len(tree.cat[dir[2]].entries)}
    ELSE IF Len(dir) = 3 /\ HasEntry(tree, dir[2], dir[3])
    THEN DOMAIN EntryNamed(tree, dir[2], dir[3]).files
    ELSE {}

\* the orders in which readdir can hand out a directory: "." and "..",
\* then the names in any order (one order is kept for the attribute files
\* of a device entry, none of which can be entered)
ListingsAt(tree, dir) ==
    IF Len(dir) = 3
    THEN {<<".", "..">> \o (CHOOSE q \in Arrangements(NamesAt(tree, dir)) : TRUE)}
    ELSE {<<".", "..">> \o q : q \in Arrangements(NamesAt(tree, dir))}

Listings(tree, category) == ListingsAt(tree, <<ACPI_PATH_SYS, category>>)

\* the readdir orders a pass with the given mask can meet, one per category
\* (a category the pass does not walk is listed in one order only)
Orders(tree, devices) ==
    LET walked(category) ==
            IF category = "power_supply"
            THEN "battery" \in devices \/ "ac_adapter" \in devices
            ELSE "thermal_zone" \in devices \/ "fan" \in devices
        listings(category) ==
            IF walked(category) THEN Listings(tree, category)
            ELSE {CHOOSE l \in Listings(tree, category) : TRUE}
    IN  {[power_supply |-> a, thermal |-> b] :
            a \in listings("power_supply"), b \in listings("thermal")}

(***************************************************************************)
(* State.                                                                  *)
(***************************************************************************)
VARIABLES
    tree,            \* the device tree under /sys/class/
    cwd,             \* the working directory of the process
    constructed,     \* has the acpi object been constructed
    _batteries,      \* details::acpi::_batteries
    _ac_adapters,    \* details::acpi::_ac_adapters
    _thermal_zones,  \* details::acpi::_thermal_zones
    _fans,           \* details::acpi::_fans
    passes,          \* acquire() calls made after construction
    last,            \* the last acquire or has_acpi_support call: [op, devices, ret]
    ret,             \* the value an X_at call has just returned to the caller
    flights,         \* per thread, the category its pass walks, or "idle"
    pc,              \* per thread, the statement of acquire_devices it is at
    stream,          \* per thread, what readdir has yet to hand out
    d_name,          \* per thread, the entry its visitor was called with
    found,           \* per thread, the records its visitor has appended
    listing,         \* per thread, the names its directory stream was opened on
    visited,         \* per thread, the names its visitor was called with so far
    opened           \* where attribute files were opened, other than in the
                     \* entry being recorded: "other" (another entry's
                     \* directory), "missing" (no entry's directory)

walkvars == <<flights, pc, stream, d_name, found, listing, visited, opened>>

vars == <<tree, cwd, constructed, _batteries, _ac_adapters, _thermal_zones,
          _fans, passes, last, ret, flights, pc, stream, d_name, found, listing,
          visited, opened>>

lists == <<_batteries, _ac_adapters, _thermal_zones, _fans>>

\* the part of the state a pass works on
PassState ==
    [cwd |-> cwd, batteries |-> _batteries, ac_adapters |-> _ac_adapters,
     thermal_zones |-> _thermal_zones, fans |-> _fans]

SetPassState(st) ==
    /\ cwd' = st.cwd
    /\ _batteries' = st.batteries
    /\ _ac_adapters' = st.ac_adapters
    /\ _thermal_zones' = st.thermal_zones
    /\ _fans' = st.fans

Call(op, devices, result) == [op |-> op, devices |-> devices, ret |-> result]

Returned(op, index, value) == [op |-> op, index |-> index, value |-> value]
NoReturn == Returned("none", 0, 0)

Threads == {1, 2}

\* no pass is run statement by statement
InitIdle ==
    /\ flights = [t \in Threads |-> "idle"]
    /\ pc = [t \in Threads |-> "done"]
    /\ stream = [t \in Threads |-> <<>>]
    /\ d_name = [t \in Threads |-> ""]
    /\ found = [t \in Threads |-> <<>>]
    /\ listing = [t \in Threads |-> <<>>]
    /\ visited = [t \in Threads |-> <<>>]
    /\ opened = {}

InitObject ==
    /\ cwd = Elsewhere
    /\ constructed = FALSE
    /\ _batteries = <<>>
    /\ _ac_adapters = <<>>
    /\ _thermal_zones = <<>>
    /\ _fans = <<>>
    /\ passes = 0
    /\ last = Call("none", {}, FALSE)
    /\ ret = NoReturn

Init ==
    /\ tree \in Trees
    /\ InitObject
    /\ InitIdle

(***************************************************************************)
(* Operations.  The caller is single-threaded: it makes its next call once *)
(* it has taken the value the previous accessor returned (ret = NoReturn). *)
(***************************************************************************)
\* acpi::acpi(): _d.reset(new details::acpi); acquire();
Construct ==
    /\ ~constructed
    /\ ret = NoReturn
    /\ constructed' = TRUE
    /\ \E order \in Orders(tree, dev_all) :
           SetPassState(acquire(tree, PassState, dev_all, order))
    /\ last' = Call("acquire", dev_all, FALSE)
    /\ UNCHANGED walkvars
    /\ UNCHANGED <<tree, passes, ret>>

\* acpi::acquire(devices)
Acquire(devices) ==
    /\ constructed
    /\ ret = NoReturn
    /\ passes < MaxPasses
    /\ passes' = passes + 1
    /\ \E order \in Orders(tree, devices) :
           SetPassState(acquire(tree, PassState, devices, order))
    /\ last' = Call("acquire", devices, FALSE)
    /\ UNCHANGED walkvars
    /\ UNCHANGED <<tree, constructed, ret>>

\* has_acpi_support answering true whatever chdir returned
has_acpi_support_always ==
    /\ ret = NoReturn
    /\ cwd' = chdir(tree, cwd, ACPI_PATH_SYS).cwd
    /\ last' = Call("has_acpi_support", {}, TRUE)
    /\ UNCHANGED walkvars
    /\ UNCHANGED <<tree, constructed, lists, passes, ret>>

\* static bool acpi::has_acpi_support(): return chdir(ACPI_PATH_SYS) == 0;
has_acpi_support ==
    /\ ret = NoReturn
    /\ cwd' = chdir(tree, cwd, ACPI_PATH_SYS).cwd
    /\ last' = Call("has_acpi_support", {}, chdir(tree, cwd, ACPI_PATH_SYS).ok)
    /\ UNCHANGED walkvars
    /\ UNCHANGED <<tree, constructed, lists, passes, ret>>

\* the index arguments tried on a vector: below, inside and past its range
Indexes(list) == -1 .. Len(list)

\* acpi::battery_at(index)
BatteryAt ==
    /\ constructed
    /\ ret = NoReturn
    /\ \E index \in Indexes(_batteries) :
           ret' = Returned("battery_at", index, battery_at(_batteries, index))
    /\ UNCHANGED walkvars
    /\ UNCHANGED <<tree, cwd, constructed, lists, passes, last>>

\* acpi::ac_adapter_at(index)
AcAdapterAt ==
    /\ constructed
    /\ ret = NoReturn
    /\ \E index \in Indexes(_ac_adapters) :
           ret' = Returned("ac_adapter_at", index,
                           ac_adapter_at(_ac_adapters, index))
    /\ UNCHANGED walkvars
    /\ UNCHANGED <<tree, cwd, constructed, lists, passes, last>>

\* acpi::thermal_zone_at(index)
ThermalZoneAt ==
    /\ constructed
    /\ ret = NoReturn
    /\ \E index \in Indexes(_thermal_zones) :
           ret' = Returned("thermal_zone_at", index,
                           thermal_zone_at(_thermal_zones, index))
    /\ UNCHANGED walkvars
    /\ UNCHANGED <<tree, cwd, constructed, lists, passes, last>>

\* acpi::fan_at(index)
FanAt ==
    /\ constructed
    /\ ret = NoReturn
    /\ \E index \in Indexes(_fans) :
           ret' = Returned("fan_at", index, fan_at(_fans, index))
    /\ UNCHANGED walkvars
    /\ UNCHANGED <<tree, cwd, constructed, lists, passes, last>>

\* the caller takes the returned copy
TakeReturn ==
    /\ ret # NoReturn
    /\ ret' = NoReturn
    /\ UNCHANGED walkvars
    /\ UNCHANGED <<tree, cwd, constructed, lists, passes, last>>

Next ==
    \/ Construct
    \/ \E devices \in Masks : Acquire(devices)
    \/ has_acpi_support
    \/ BatteryAt
    \/ AcAdapterAt
    \/ ThermalZoneAt
    \/ FanAt
    \/ TakeReturn

Spec == Init /\ [][Next]_vars

(***************************************************************************)
(* The battery specification: the constructor's pass over each tree of     *)
(* BatteryTrees.                                                           *)
(***************************************************************************)
InitBat ==
    /\ tree \in BatteryTrees
    /\ InitObject
    /\ InitIdle

NextBat == Construct

SpecBat == InitBat /\ [][NextBat]_vars

(***************************************************************************)
(* The division specification: the constructor's pass over one battery     *)
(* whose numeric attributes are absent, negative, zero, below one unit of  *)
(* the scaled fields, or positive.                                         *)
(***************************************************************************)
\* a raw value below one unit of the scaled fields (it scales to 0)
SubUnit == 500

\* the attributes whose values end as divisors
VoltageValues == Holding({-2000, -1000, 0, SubUnit, 1000})
DivisorValues == Holding({-2000, 0, SubUnit, 1000})
\* the attributes whose values end as dividends
DividendValues == Holding({-2000, SubUnit, 1000})

DivisionTrees ==
    {BatteryTree(RawChoice(cn, en, cu, pn, cf, ef, vn), <<st>>) :
        cn \in DividendValues, en \in DividendValues, cu \in DivisorValues,
        pn \in DividendValues, cf \in DivisorValues, ef \in DividendValues,
        vn \in VoltageValues,
        st \in {StatusDischarging, StatusCharging, StatusFull}}

InitDiv ==
    /\ tree \in DivisionTrees
    /\ InitObject
    /\ InitIdle

NextDiv == Construct

SpecDiv == InitDiv /\ [][NextDiv]_vars

(***************************************************************************)
(* The thermal specification: passes over trees whose thermal entries hold *)
(* each of temp, cur_state and max_state or not.  An entry keeps the raw   *)
(* values its files were written from; a blank file exists and is empty.   *)
(***************************************************************************)
ThermalAttributes == {"temp", "cur_state", "max_state"}

TempChoices == Holding({-5000, 0, 45000})
CurStateChoices == Holding({0, 2})
MaxStateChoices == Holding({5})

ThermalRaw(temp, cur_state, max_state) ==
    [temp |-> temp, cur_state |-> cur_state, max_state |-> max_state]

ThermalFiles(raw, blank) ==
    LET names == {a \in ThermalAttributes : raw[a] # Absent} \cup blank
    IN  [a \in names |->
            IF raw[a] = Absent THEN <<>> ELSE NumberFile(raw[a][1])]

ThermalEntry(i, raw, blank) ==
    [name |-> EntryNames[i], dir |-> TRUE, files |-> ThermalFiles(raw, blank),
     raw |-> raw]

ThermalTree(entries) ==
    MakeTree(TRUE, MakeDir("ok", <<"mains">>),
             [state |-> "ok", entries |-> entries])

\* the two thermal entries of the scenario of section 8
ScenarioZoneRaw == ThermalRaw(<<45000>>, Absent, Absent)
ScenarioFanRaw == ThermalRaw(Absent, <<2>>, <<5>>)

ThermalTrees ==
    {ThermalTree(<<ThermalEntry(1, ThermalRaw(te, cs, ms), {})>>) :
        te \in TempChoices, cs \in CurStateChoices, ms \in MaxStateChoices}
    \cup
    {ThermalTree(<<ThermalEntry(1, ThermalRaw(Absent, cs, ms), {"temp"})>>) :
        cs \in CurStateChoices, ms \in MaxStateChoices}
    \cup
    {ThermalTree(<<ThermalEntry(1, ScenarioZoneRaw, {}),
                   ThermalEntry(2, ScenarioFanRaw, {})>>)}

InitThermal ==
    /\ tree \in ThermalTrees
    /\ InitObject
    /\ InitIdle

NextThermal ==
    \/ Construct
    \/ \E devices \in Masks : Acquire(devices)

SpecThermal == InitThermal /\ [][NextThermal]_vars

(***************************************************************************)
(* The reader specification: read_all called on one attribute file, from   *)
(* the directory of the entry that holds it, over file contents of every   *)
(* length up to a few buffers.                                             *)
(***************************************************************************)
\* n bytes none of which is a newline
Filler(n) == [i \in 1..n |-> "x"]

\* how a file can end: without a newline, with one, with two, and with a
\* newline before its last byte
FileEndings == {<<>>, <<"\n">>, <<"\n", "\n">>, <<"\n", "x">>}

FileContents ==
    {Filler(n) \o ending : n \in 0 .. MaxChunks * BUF_SZ, ending \in FileEndings}

\* a tree whose one power_supply entry holds the file "manufacturer"
ReaderTree(content) ==
    MakeTree(TRUE,
             [state |-> "ok",
              entries |-> <<[name |-> EntryNames[1], dir |-> TRUE,
                             files |-> [manufacturer |-> content]]>>],
             MissingDir)

ReaderTrees == {ReaderTree(content) : content \in FileContents}

\* the file names read_all is called with: one the entry holds, one it
\* does not
ReaderPaths == {"manufacturer", "model_name"}

InitRead ==
    /\ tree \in ReaderTrees
    /\ cwd = <<ACPI_PATH_SYS, "power_supply", EntryNames[1]>>
    /\ constructed = FALSE
    /\ _batteries = <<>>
    /\ _ac_adapters = <<>>
    /\ _thermal_zones = <<>>
    /\ _fans = <<>>
    /\ passes = 0
    /\ last = Call("none", {}, FALSE)
    /\ ret = NoReturn
    /\ InitIdle

\* read_all(path, remove_trailing_nl), called from the working directory
ReadAll(path, remove_trailing_nl) ==
    /\ ret = NoReturn
    /\ ret' = [op |-> "read_all", path |-> path,
               remove_trailing_nl |-> remove_trailing_nl,
               value |-> ReadAttr(tree, cwd, path, remove_trailing_nl)]
    /\ UNCHANGED walkvars
    /\ UNCHANGED <<tree, cwd, constructed, lists, passes, last>>

NextRead ==
    \/ \E path \in ReaderPaths, remove_trailing_nl \in BOOLEAN :
           ReadAll(path, remove_trailing_nl)
    \/ TakeReturn

SpecRead == InitRead /\ [][NextRead]_vars

(***************************************************************************)
(* The concurrency specification: one or two passes of acquire_devices run *)
(* statement by statement in one process.  Each thread owns its result     *)
(* vectors (found); the working directory is the process's.  Every system  *)
(* call is one step; the reads that fill a record are one step.            *)
(***************************************************************************)
ConcurrencyTrees ==
    {MakeTree(TRUE, MakeDir("ok", <<"battery", "mains">>),
                    MakeDir("ok", <<"thermal_zone">>)),
     MakeTree(TRUE, MakeDir("ok", <<"stale", "battery">>),
                    MakeDir("ok", <<"cooling_device">>))}

InitConc ==
    /\ tree \in ConcurrencyTrees
    /\ InitObject
    /\ flights \in {f \in [Threads -> Categories \cup {"idle"}] : f[1] # "idle"}
    /\ pc = [t \in Threads |-> IF flights[t] = "idle" THEN "done" ELSE "start"]
    /\ stream = [t \in Threads |-> <<>>]
    /\ d_name = [t \in Threads |-> ""]
    /\ found = [t \in Threads |-> <<>>]
    /\ listing = [t \in Threads |-> <<>>]
    /\ visited = [t \in Threads |-> <<>>]
    /\ opened = {}

Goto(t, label) == pc' = [pc EXCEPT ![t] = label]

\* the directory of the entry thread t's visitor is recording
EntryDir(t) == <<ACPI_PATH_SYS, flights[t], d_name[t]>>

\* the opens made so far and those thread t makes now, relative to cwd
OpenedBy(t) ==
    IF cwd = EntryDir(t) THEN opened
    ELSE IF Len(cwd) = 3 THEN opened \cup {"other"}
    ELSE opened \cup {"missing"}

\* if (chdir(ACPI_PATH_SYS) < 0) return;
ChdirRoot(t) ==
    /\ pc[t] = "start"
    /\ cwd' = chdir(tree, cwd, ACPI_PATH_SYS).cwd
    /\ Goto(t, IF chdir(tree, cwd, ACPI_PATH_SYS).ok THEN "chdir_category" ELSE "done")
    /\ UNCHANGED <<tree, constructed, lists, passes, last, ret, flights, stream,
                   d_name, found, opened>>
    /\ UNCHANGED <<listing, visited>>

\* if (::chdir(direntry) < 0) return;
ChdirCategory(t) ==
    /\ pc[t] = "chdir_category"
    /\ cwd' = chdir(tree, cwd, flights[t]).cwd
    /\ Goto(t, IF chdir(tree, cwd, flights[t]).ok THEN "opendir" ELSE "done")
    /\ UNCHANGED <<tree, constructed, lists, passes, last, ret, flights, stream,
                   d_name, found, opened>>
    /\ UNCHANGED <<listing, visited>>

\* auto d = ::opendir("."); if (!d) return;
Opendir(t) ==
    /\ pc[t] = "opendir"
    /\ IF opendir(tree, cwd)
       THEN /\ \E names \in ListingsAt(tree, cwd) :
                  /\ stream' = [stream EXCEPT ![t] = names]
                  /\ listing' = [listing EXCEPT ![t] = names]
            /\ Goto(t, "readdir")
       ELSE /\ Goto(t, "done")
            /\ UNCHANGED <<stream, listing>>
    /\ UNCHANGED <<tree, cwd, constructed, lists, passes, last, ret, flights,
                   d_name, found, opened>>
    /\ UNCHANGED visited

\* while ((de = ::readdir(d))) { if (is_dir_entry(de)) continue; ...
Readdir(t) ==
    /\ pc[t] = "readdir"
    /\ IF Len(stream[t]) = 0
       THEN /\ Goto(t, "done")
            /\ UNCHANGED <<stream, d_name>>
       ELSE /\ stream' = [stream EXCEPT ![t] = Tail(@)]
            /\ IF is_dir_entry(Head(stream[t]))
               THEN UNCHANGED <<pc, d_name>>
               ELSE /\ d_name' = [d_name EXCEPT ![t] = Head(stream[t])]
                    /\ Goto(t, "restore_root")
    /\ UNCHANGED <<tree, cwd, constructed, lists, passes, last, ret, flights,
                   found, opened>>
    /\ UNCHANGED <<listing, visited>>

\* RestoreRoot leaving the working directory where the visitor left it
RestoreRoot_skipped(t) ==
    /\ pc[t] = "restore_root"
    /\ Goto(t, "restore_category")
    /\ UNCHANGED <<tree, cwd, constructed, lists, passes, last, ret, flights,
                   stream, d_name, found, opened>>
    /\ UNCHANGED <<listing, visited>>

\* chdir(ACPI_PATH_SYS);
RestoreRoot(t) ==
    /\ pc[t] = "restore_root"
    /\ cwd' = chdir(tree, cwd, ACPI_PATH_SYS).cwd
    /\ Goto(t, "restore_category")
    /\ UNCHANGED <<tree, constructed, lists, passes, last, ret, flights, stream,
                   d_name, found, opened>>
    /\ UNCHANGED <<listing, visited>>

\* chdir(direntry); visitor(de->d_name, devices);
RestoreCategory(t) ==
    /\ pc[t] = "restore_category"
    /\ cwd' = chdir(tree, cwd, flights[t]).cwd
    /\ visited' = [visited EXCEPT ![t] = Append(@, d_name[t])]
    /\ Goto(t, "visitor")
    /\ UNCHANGED <<tree, constructed, lists, passes, last, ret, flights, stream,
                   d_name, found, opened>>
    /\ UNCHANGED listing

\* VisitorChdir going on to the reads although chdir failed
VisitorChdir_unchecked(t) ==
    /\ pc[t] = "visitor"
    /\ cwd' = chdir(tree, cwd, d_name[t]).cwd
    /\ Goto(t, "classify")
    /\ UNCHANGED <<tree, constructed, lists, passes, last, ret, flights, stream,
                   d_name, found, opened>>
    /\ UNCHANGED <<listing, visited>>

\* visitor: if (chdir(direntry) == 0) { ... } else { return; }
VisitorChdir(t) ==
    /\ pc[t] = "visitor"
    /\ cwd' = chdir(tree, cwd, d_name[t]).cwd
    /\ Goto(t, IF chdir(tree, cwd, d_name[t]).ok THEN "classify" ELSE "readdir")
    /\ UNCHANGED <<tree, constructed, lists, passes, last, ret, flights, stream,
                   d_name, found, opened>>
    /\ UNCHANGED <<listing, visited>>

\* visitor: read_all("type") or read_all("temp"), and the choice of branch
\* (every kind is requested)
VisitorClassify(t) ==
    LET kind == IF flights[t] = "power_supply" THEN power_supply_kind(tree, cwd)
                ELSE thermal_kind(tree, cwd)
    IN  /\ pc[t] = "classify"
        /\ opened' = OpenedBy(t)
        /\ Goto(t, IF kind = "none" THEN "readdir" ELSE kind)
        /\ UNCHANGED <<tree, cwd, constructed, lists, passes, last, ret, flights,
                       stream, d_name, found>>
        /\ UNCHANGED <<listing, visited>>

\* visitor: emplace_back() and the reads that fill the record
VisitorFill(t) ==
    LET record ==
            CASE pc[t] = "battery" -> BatteryRecord(tree, cwd, d_name[t])
              [] pc[t] = "ac_adapter" -> AcAdapterRecord(tree, cwd, d_name[t])
              [] pc[t] = "thermal_zone" -> ThermalZoneRecord(tree, cwd, d_name[t])
              [] pc[t] = "fan" -> FanRecord(tree, cwd, d_name[t])
    IN  /\ pc[t] \in Kinds
        /\ found' = [found EXCEPT ![t] = Append(@, [kind |-> pc[t], record |-> record])]
        /\ opened' = OpenedBy(t)
        /\ Goto(t, "readdir")
        /\ UNCHANGED <<tree, cwd, constructed, lists, passes, last, ret, flights,
                       stream, d_name>>
        /\ UNCHANGED <<listing, visited>>

NextConc ==
    \E t \in Threads :
        \/ ChdirRoot(t)
        \/ ChdirCategory(t)
        \/ Opendir(t)
        \/ Readdir(t)
        \/ RestoreRoot(t)
        \/ RestoreCategory(t)
        \/ VisitorChdir(t)
        \/ VisitorClassify(t)
        \/ VisitorFill(t)

SpecConc == InitConc /\ [][NextConc]_vars

\* an attribute file was opened relative to a directory other than the
\* entry being recorded
Misopened == opened # {}

\* passes in flight
InFlight == {t \in Threads : flights[t] # "idle"}

\* C9: with a single acquisition in flight every attribute file is opened
\* relative to the device entry being recorded.  (That two passes in flight
\* can open one relative to another directory is the reachability of
\* C9_Witness.)
C9_SingleFlightOpensItsEntry ==
    Cardinality(InFlight) = 1 => ~Misopened

\* two passes in flight, and one has appended a record it classified or
\* filled from a directory other than the entry's
C9_Witness ==
    /\ Cardinality(InFlight) = 2
    /\ \E t \in Threads : Len(found[t]) > 0
    /\ "other" \in opened

\* the names of a directory stream that the loop does not skip
NonDots(names) == SelectSeq(names, LAMBDA name : ~is_dir_entry(name))

\* the name readdir has handed out and the visitor is yet to be called with
Pending(t) ==
    IF pc[t] \in {"restore_root", "restore_category"} THEN <<d_name[t]>>
    ELSE <<>>

\* the times a name occurs in a sequence of names
TimesIn(names, name) == Cardinality({i \in 1..Len(names) : names[i] = name})

\* C12: in a pass with no other pass in flight the visitor is called once
\* for each entry of the category other than "." and "..", in the order
\* readdir hands them out, and at each call the working directory is
\* root/category wherever the previous call left it.
C12_VisitorOncePerEntryAtCategory ==
    Cardinality(InFlight) = 1 =>
        \A t \in InFlight :
            /\ pc[t] = "visitor" => cwd = <<ACPI_PATH_SYS, flights[t]>>
            /\ visited[t] \o Pending(t) \o NonDots(stream[t])
                   = NonDots(listing[t])
            /\ (pc[t] = "done" /\ Len(listing[t]) > 0) =>
                   LET names == NamesAt(tree, <<ACPI_PATH_SYS, flights[t]>>)
                   IN  /\ Len(visited[t]) = Cardinality(names)
                       /\ \A name \in names : TimesIn(visited[t], name) = 1

\* the visitor is being called for the second entry of a category, after
\* its first call recorded a device and left the working directory in that
\* device's entry
C12_Witness ==
    /\ Cardinality(InFlight) = 1
    /\ \E t \in InFlight :
           /\ pc[t] = "visitor"
           /\ Len(visited[t]) = 2
           /\ Len(found[t]) = 1
           /\ found[t][1].record.name = visited[t][1]
           /\ cwd = <<ACPI_PATH_SYS, flights[t]>>

(***************************************************************************)
(* Properties of the acquisition specification.                            *)
(***************************************************************************)
ListOf(kind) ==
    CASE kind = "battery" -> _batteries
      [] kind = "ac_adapter" -> _ac_adapters
      [] kind = "thermal_zone" -> _thermal_zones
      [] kind = "fan" -> _fans

CategoryOf(kind) ==
    IF kind \in {"battery", "ac_adapter"} THEN "power_supply" ELSE "thermal"

\* the step is the constructor's pass or an acquire() call
IsAcquireStep == passes' = passes + 1 \/ (~constructed /\ constructed')

\* the kind an entry of the tree presents itself as
EntryKind(category, entry) ==
    IF category = "power_supply"
    THEN IF "type" \notin DOMAIN entry.files THEN "none"
         ELSE IF strncasecmp0(entry.files.type, <<"b","a","t","t","e","r","y">>, 7)
         THEN "battery"
         ELSE IF strncasecmp0(entry.files.type, <<"m","a","i","n","s">>, 5)
         THEN "ac_adapter"
         ELSE "none"
    ELSE IF "temp" \in DOMAIN entry.files /\ Len(entry.files.temp) > 0
         THEN "thermal_zone" ELSE "fan"

\* the entries of the tree one pass can discover for a kind
Matching(kind) ==
    LET dir == tree.cat[CategoryOf(kind)]
    IN  IF tree.root /\ dir.state = "ok"
        THEN {i \in 1..Len(dir.entries) :
                 dir.entries[i].dir
                 /\ EntryKind(CategoryOf(kind), dir.entries[i]) = kind}
        ELSE {}

Occurrences(list, x) == Cardinality({i \in 1..Len(list) : list[i] = x})

SameMultiset(a, b) ==
    /\ Len(a) = Len(b)
    /\ \A i \in 1..Len(a) : Occurrences(a, a[i]) = Occurrences(b, a[i])

\* C1: after an acquire(mask) call, constructor's included, the list of
\* every kind named in the mask holds exactly the records of that pass: its
\* count is the number of matching entries of the tree, each entry once.
C1_ReplacedByLastPass ==
    last.op = "acquire" =>
        \A kind \in last.devices :
            /\ Len(ListOf(kind)) = Cardinality(Matching(kind))
            /\ \A i \in Matching(kind) :
                   Occurrences([j \in 1..Len(ListOf(kind)) |-> ListOf(kind)[j].name],
                               tree.cat[CategoryOf(kind)].entries[i].name) = 1

\* C2: an acquire(mask) call leaves the list of every kind outside the mask
\* as it was: same length, same records, same order.
C2_UnrequestedUnchanged ==
    [][IsAcquireStep =>
          \A kind \in Kinds \ last'.devices : ListOf(kind)' = ListOf(kind)]_vars

\* a battery-only pass was made and the adapter list of the same category
\* is still the one the constructor filled
C2_Witness ==
    /\ last.op = "acquire" /\ last.devices = {"battery"}
    /\ Len(_ac_adapters) = 1 /\ Len(_batteries) = 2
    /\ Len(_thermal_zones) = 1 /\ Len(_fans) = 1

\* C3: two acquire(all) calls in succession on an unchanged tree leave
\* equal result sets: per kind the same count and the same records as a
\* multiset.
C3_AcquireAllTwice ==
    [][(IsAcquireStep /\ last.op = "acquire" /\ last.devices = dev_all
          /\ last'.devices = dev_all)
       => \A kind \in Kinds : SameMultiset(ListOf(kind), ListOf(kind)')]_vars

\* C4: X_at(index) changes no list; it returns the default value of the
\* kind when index < 0 or index >= X_available(), and otherwise a copy of
\* the record at that position.
C4_IndexedAccess ==
    [][ret' # NoReturn =>
          /\ lists' = lists
          /\ LET kind == CASE ret'.op = "battery_at" -> "battery"
                            [] ret'.op = "ac_adapter_at" -> "ac_adapter"
                            [] ret'.op = "thermal_zone_at" -> "thermal_zone"
                            [] ret'.op = "fan_at" -> "fan"
                  default == CASE kind = "battery" -> DefaultBattery
                               [] kind = "ac_adapter" -> DefaultAcAdapter
                               [] kind = "thermal_zone" -> DefaultThermalZone
                               [] kind = "fan" -> DefaultFan
                  stored == ListOf(kind)
              IN  IF ret'.index < 0 \/ ret'.index >= Len(stored)
                  THEN ret'.value = default
                  ELSE \A f \in DOMAIN default :
                          ret'.value[f] = stored[ret'.index + 1][f]]_vars

\* battery_at was called with index = batteries_available() on a non-empty
\* list and returned the default battery
C4_Witness ==
    /\ ret.op = "battery_at"
    /\ Len(_batteries) > 0
    /\ ret.index = Len(_batteries)
    /\ ret.value = DefaultBattery

\* C7: with /sys/class/ not enterable has_acpi_support() is false and no
\* pass visits an entry or records anything; a category directory that is
\* missing or unreadable yields no record and is never descended into.
C7_UnreachableTreeIsEmpty ==
    /\ ~tree.root =>
          /\ \A kind \in Kinds : Len(ListOf(kind)) = 0
          /\ cwd = Elsewhere
          /\ last.op = "has_acpi_support" => ~last.ret
    /\ \A kind \in Kinds :
          tree.cat[CategoryOf(kind)].state # "ok" =>
              /\ Len(ListOf(kind)) = 0
              /\ Len(cwd) = 3 => cwd[2] # CategoryOf(kind)

\* the root cannot be entered, acquire() was called after construction and
\* has_acpi_support() has then answered false
C7_Witness ==
    /\ ~tree.root
    /\ constructed /\ passes >= 1
    /\ last.op = "has_acpi_support" /\ ~last.ret

\* C8: has_acpi_support() changes nothing observable: the working
\* directory and the four lists are after the call what they were before.
C8_ProbeIsPure ==
    [][has_acpi_support => cwd' = cwd /\ lists' = lists]_vars

(***************************************************************************)
(* Properties of the battery derivation.                                   *)
(***************************************************************************)
Batteries == {_batteries[i] : i \in 1..Len(_batteries)}

\* C5: every battery record has 0 <= percentage <= 100.
C5_PercentageRange ==
    \A bat \in Batteries : 0 <= bat.percentage /\ bat.percentage <= 100

\* C6: seconds is -1 whenever the final present_rate is -1, or it is at
\* most 0.01 while charging or discharging, or the charge state is neither
\* charging nor discharging.
C6_SecondsUnknown ==
    \A bat \in Batteries :
        (\/ bat.present_rate = -1
         \/ /\ bat.present_rate * 100 <= 1
            /\ bat.charge_state \in {"charge", "discharge"}
         \/ bat.charge_state \notin {"charge", "discharge"})
        => bat.seconds = -1

\* a discharging battery was recorded whose rate is zero, and one cannot
\* tell how long it lasts
C6_Witness ==
    \E bat \in Batteries :
        /\ bat.charge_state = "discharge"
        /\ bat.present_rate = 0
        /\ bat.remaining_capacity > 0
        /\ bat.seconds = -1

\* the raw values the files of a recorded battery were written from
RawOf(bat) == EntryNamed(tree, "power_supply", bat.name).raw

FilePresent(raw, a) == raw[a] # Absent

ScaledValue(raw, a) ==
    IF FilePresent(raw, a) THEN TruncDiv(raw[a][1], 1000) ELSE -1

\* the value counts as known unless it reads -1 after scaling
ValueKnown(raw, a) == ScaledValue(raw, a) # -1

\* the derivation of steps 3 to 7, from the raw values and the charge state;
\* Known(raw, a) tells whether attribute a counts as present
ReferenceBattery(raw, charge_state, Known(_, _)) ==
    LET scaled(a) == ScaledValue(raw, a)
        voltage == IF scaled("voltage_now") = 0 THEN -1 ELSE scaled("voltage_now")
        rescale(x) == IF voltage = -1 THEN x ELSE TruncDiv(x * 1000, voltage)
        rate == IF FilePresent(raw, "current_now") THEN scaled("current_now")
                ELSE scaled("power_now")
        last_capacity ==
            IF Known(raw, "charge_full") THEN scaled("charge_full")
            ELSE IF Known(raw, "energy_full") THEN rescale(scaled("energy_full"))
            ELSE -1
        from_energy == ~Known(raw, "charge_now") /\ Known(raw, "energy_now")
        remaining_capacity ==
            IF from_energy THEN rescale(scaled("energy_now"))
            ELSE scaled("charge_now")
        present_rate == IF from_energy THEN rescale(rate) ELSE rate
        percentage ==
            IF last_capacity <= 0 THEN 0
            ELSE IF TruncDiv(remaining_capacity * 100, last_capacity) > 100 THEN 100
            ELSE TruncDiv(remaining_capacity * 100, last_capacity)
        seconds ==
            IF present_rate = -1 \/ present_rate <= 0 THEN -1
            ELSE IF charge_state = "charge"
            THEN TruncDiv(3600 * (last_capacity - remaining_capacity), present_rate)
            ELSE IF charge_state = "discharge"
            THEN TruncDiv(3600 * remaining_capacity, present_rate)
            ELSE -1
    IN  [remaining_capacity |-> remaining_capacity,
         last_capacity |-> last_capacity, present_rate |-> present_rate,
         percentage |-> percentage, seconds |-> seconds]

DerivedFields ==
    {"remaining_capacity", "last_capacity", "present_rate", "percentage", "seconds"}

IsScenario(bat) == RawOf(bat) = ScenarioRaw /\ bat.charge_state = "discharge"

ScenarioValues(bat) ==
    /\ bat.remaining_capacity = 3000 /\ bat.last_capacity = 6000
    /\ bat.present_rate = 1000 /\ bat.percentage = 50
    /\ bat.seconds = 10800

\* C10: the five derived fields of every battery record equal the reference
\* derivation of steps 3 to 7 from the raw attribute values, in which the
\* energy values are used only when the charge file is absent; the scenario
\* battery gives 3000, 6000, 1000, 50 and 10800.
C10_ReferenceDerivation ==
    \A bat \in Batteries :
        /\ \A f \in DerivedFields :
              bat[f] = ReferenceBattery(RawOf(bat), bat.charge_state, FilePresent)[f]
        /\ IsScenario(bat) => ScenarioValues(bat)

\* C10 as amended: the same derivation, in which a charge or energy value
\* counts as absent exactly when it reads -1 after scaling (its file is
\* absent or holds a value in -1999..-1000).
C10_SentinelDerivation ==
    \A bat \in Batteries :
        /\ \A f \in DerivedFields :
              bat[f] = ReferenceBattery(RawOf(bat), bat.charge_state, ValueKnown)[f]
        /\ IsScenario(bat) => ScenarioValues(bat)

\* the battery that reports energy and power has been recorded, with its
\* capacities and its rate derived through the voltage
C10_Witness ==
    \E bat \in Batteries :
        /\ RawOf(bat) = EnergyRaw
        /\ bat.last_capacity = 6000 /\ bat.remaining_capacity = 3000
        /\ bat.present_rate = 1000 /\ bat.percentage = 50 /\ bat.seconds = 10800

(***************************************************************************)
(* Properties of the attribute reader.                                     *)
(***************************************************************************)
\* the content of the file a read_all call named, <<>> if there is no such
\* file
ContentRead ==
    LET files == EntryNamed(tree, cwd[2], cwd[3]).files
    IN  IF ret.path \in DOMAIN files THEN files[ret.path] ELSE <<>>

\* the content without its final character when that is a newline
WithoutFinalNewline(content) ==
    IF Len(content) > 0 /\ content[Len(content)] = "\n"
    THEN SubSeq(content, 1, Len(content) - 1)
    ELSE content

\* C11: read_all(path, true) returns the content of the file without its
\* final character when that is a newline and unchanged otherwise, whatever
\* the length of the content; read_all(path, false) returns the content
\* unchanged; a file that cannot be opened yields the empty string.
C11_ReadAllTrimsFinalNewline ==
    ret.op = "read_all" =>
        ret.value = IF ret.remove_trailing_nl
                    THEN WithoutFinalNewline(ContentRead)
                    ELSE ContentRead

(***************************************************************************)
(* Properties of the thermal visitor.                                      *)
(***************************************************************************)
\* the records a pass has appended to a vector
NewRecords(before, after) == SubSeq(after, Len(before) + 1, Len(after))

\* the records that carry the name of an entry
Named(records, name) == SelectSeq(records, LAMBDA r : r.name = name)

RawOrUnknown(raw, a) == IF raw[a] = Absent THEN -1 ELSE raw[a][1]

\* C13: a pass produces, for each entry under the thermal category, a
\* thermal zone holding the parsed temp (the temperature in thousandths of
\* a degree) exactly when temp reads non-empty and thermal_zone is in the
\* mask, a fan holding cur_state and max_state (-1 for an absent file)
\* exactly when temp reads empty and fan is in the mask, and nothing
\* otherwise; never two records, never a fan for an entry with a temp.
C13_ThermalClassification ==
    [][IsAcquireStep =>
          /\ SubSeq(_thermal_zones', 1, Len(_thermal_zones)) = _thermal_zones
          /\ SubSeq(_fans', 1, Len(_fans)) = _fans
          /\ \A i \in 1..Len(tree.cat["thermal"].entries) :
                LET e == tree.cat["thermal"].entries[i]
                    devices == last'.devices
                    zones == Named(NewRecords(_thermal_zones, _thermal_zones'),
                                   e.name)
                    fans == Named(NewRecords(_fans, _fans'), e.name)
                IN  IF e.raw.temp # Absent /\ "thermal_zone" \in devices
                    THEN /\ zones = <<[name |-> e.name,
                                       temperature |-> e.raw.temp[1]]>>
                         /\ fans = <<>>
                    ELSE IF e.raw.temp = Absent /\ "fan" \in devices
                    THEN /\ zones = <<>>
                         /\ fans = <<[name |-> e.name,
                                      cur_state |-> RawOrUnknown(e.raw, "cur_state"),
                                      max_state |-> RawOrUnknown(e.raw, "max_state")]>>
                    ELSE zones = <<>> /\ fans = <<>>]_vars

\* an entry holding temp = 45000 and cur_state was visited by a pass that
\* asked for fans only, and no fan was recorded for it
C13_Witness ==
    /\ last.op = "acquire" /\ last.devices = {"fan"}
    /\ passes = 1
    /\ Len(tree.cat["thermal"].entries) = 1
    /\ tree.cat["thermal"].entries[1].raw.temp = <<45000>>
    /\ tree.cat["thermal"].entries[1].raw.cur_state = <<2>>
    /\ _fans = <<>>
    /\ _thermal_zones = <<[name |-> EntryNames[1], temperature |-> 45000]>>

(***************************************************************************)
(* Properties of the divisions of the battery derivation.                  *)
(***************************************************************************)
\* the divisions executed while a recorded battery was derived
DivisionsOf(bat) ==
    BatteryDivisions(tree, <<ACPI_PATH_SYS, "power_supply", bat.name>>)

\* C14: no division the battery derivation executes has a zero divisor: not
\* the divisions by the voltage (last_capacity, remaining_capacity,
\* present_rate), not the one by last_capacity (percentage), not the one
\* by present_rate (seconds).
C14_NoDivisionByZero ==
    \A bat \in Batteries : \A d \in DivisionsOf(bat) : d.divisor # 0

\* a battery was recorded whose voltage_now reads zero and whose capacity
\* comes from energy_full: the voltage is unknown, the energy is taken
\* undivided, and the percentage is a division by that capacity
C14_Witness ==
    \E bat \in Batteries :
        /\ RawOf(bat).voltage_now = <<0>>
        /\ RawOf(bat).charge_full = Absent
        /\ RawOf(bat).energy_full = <<1000>>
        /\ bat.voltage = -1
        /\ bat.last_capacity = 1
        /\ DivisionsOf(bat) = {[field |-> "percentage", divisor |-> 1]}

(***************************************************************************)
(* Properties of the remaining time without a rate.                        *)
(***************************************************************************)
\* neither current_now nor power_now could be read for the battery
NoRateFile(bat) ==
    RawOf(bat).current_now = Absent /\ RawOf(bat).power_now = Absent

\* C15: a battery for which neither current_now nor power_now is readable
\* has seconds = -1, whatever its charge state and its other attributes.
C15_NoRateNoSeconds ==
    \A bat \in Batteries : NoRateFile(bat) => bat.seconds = -1

=============================================================================
